---------------------------- MODULE Spec2Model ----------------------------
(***************************************************************************)
(* A model of the ChordPro/OnSong live-reload renderer (src/app.py) and of *)
(* the WebChord converter it embeds (src/webchord.py).                     *)
(*                                                                         *)
(* Python strings are TLA+ strings; TLC evaluates Len, Head, Tail, SubSeq  *)
(* and \o on them, so every text operation below is computed character by *)
(* character the way the code computes it.  An absent value (Python None,  *)
(* a missing query argument) is the empty tuple and a present value v is   *)
(* the one-element tuple <<v>>.                                            *)
(***************************************************************************)
EXTENDS Integers, Sequences, FiniteSets, TLC

VARIABLES
    pc,          \* position of the run: what has been applied so far
    chord,       \* transpose_chord: the chord string passed in
    line,        \* transpose_line: the line passed in
    semitones,   \* the offset of the transposition
    prefer,      \* the accidental preference of the transposition
    transposed,  \* the value returned for (input, semitones, prefer)
    restored,    \* the value returned for (transposed, -semitones, prefer)
    mode,        \* Renderer B: bit 0 chorus, bit 1 tab
    out,         \* Renderer B: the markup returned
    lineno,      \* Renderer B: how many lines of the document are rendered
    raw_text,    \* the document text as read from the file
    text,        \* the normalized (and, on the render path, transposed) text
    base_key,    \* the key prepare_chopro extracts
    files,       \* the file tree: path |-> text of the file
    request,     \* the HTTP request: route and query arguments
    status,      \* the HTTP status of the response, 0 before there is one
    song_path,   \* the path the handler settled on, if it got that far
    opened,      \* the path of the file the handler read, if it read one
    location,    \* the target of a redirect
    fragment,    \* /render: the markup fragment returned
    page,        \* /: the values handed to the page template
    subscriptions, \* _subscriptions: path |-> the subscribers of that path
    q,           \* the queue of each subscriber
    stream,      \* /events: how far each client's request has come
    delivered,   \* the "reload" messages each client's stream has sent
    fs_events,   \* the file-system events the observer has yet to dispatch
    notify       \* _notify: the subscribers still to be served, if any

\* the transposition engine's variables, and Renderer B's
tvars == <<chord, semitones, prefer, transposed, restored>>
gvars == <<mode, out, lineno>>
\* the document being prepared
dvars == <<raw_text, text, base_key>>

\* the web application
wvars == <<files, request, status, song_path, opened, location, fragment, page>>

\* live reload
evars == <<subscriptions, q, stream, delivered, fs_events, notify>>

vars == <<pc, line, tvars, gvars, dvars, wvars, evars>>

None == <<>>
Some(v) == <<v>>

-----------------------------------------------------------------------------
(* Bounds of the model.                                                    *)

\* transpose_chord is applied with every offset in -MaxSemitones..MaxSemitones
MaxSemitones == 25
\* transpose_line is applied with every offset in -MaxShift..MaxShift
MaxShift == 2
\* the longest generated text between the outer brackets of a line
MaxTokLen == 4
\* the longest generated content line handed to parse_chopro_line
MaxGridLen == 6
\* the most lines of a document handed to chopro2html line by line
MaxRenderLines == 3
\* the most lines of a document generated from the pool of lines
MaxDocLines == 4
\* the most lines between the artist line and the key line of a lead sheet
MaxFiller == 7
\* the most lines of the song file the web application serves
MaxSongLines == 3
\* the clients that may open an event stream
MaxClients == 2
\* the most file-system events the observer dispatches
MaxChanges == 2

-----------------------------------------------------------------------------
(* Python str helpers.                                                     *)

\* str.isspace for the characters the model's texts are made of
Whitespace == {" ", "\t"}

At(s, i) == SubSeq(s, i, i)

\* s[i:] with a 1-based i
From(s, i) == SubSeq(s, i, Len(s))

RECURSIVE lstrip(_)
lstrip(s) ==
    IF s # "" /\ Head(s) \in Whitespace THEN lstrip(Tail(s)) ELSE s

RECURSIVE rstrip(_)
rstrip(s) ==
    IF s # "" /\ At(s, Len(s)) \in Whitespace
    THEN rstrip(SubSeq(s, 1, Len(s) - 1))
    ELSE s

strip(s) == rstrip(lstrip(s))

\* str.startswith
startswith(s, prefix) ==
    Len(s) >= Len(prefix) /\ SubSeq(s, 1, Len(prefix)) = prefix

\* str.endswith
endswith(s, suffix) ==
    Len(s) >= Len(suffix) /\ SubSeq(s, Len(s) - Len(suffix) + 1, Len(s)) = suffix

\* str.find(sub, start) with 1-based positions; 0 when sub does not occur
find(s, sub, start) ==
    LET last == Len(s) - Len(sub) + 1
        hit(i) == SubSeq(s, i, i + Len(sub) - 1) = sub
    IN  IF \E i \in start..last : hit(i)
        THEN CHOOSE i \in start..last : hit(i) /\ \A j \in start..(i - 1) : ~hit(j)
        ELSE 0

\* the `in` operator on strings
contains(s, sub) == find(s, sub, 1) # 0


\* str.splitlines for texts whose only line boundary is "\n"
RECURSIVE splitlines(_)
splitlines(s) ==
    IF s = "" THEN <<>>
    ELSE LET k == find(s, "\n", 1)
         IN  IF k = 0 THEN <<s>>
             ELSE <<SubSeq(s, 1, k - 1)>> \o splitlines(From(s, k + 1))

\* "\n".join(lines)
RECURSIVE join_lines(_)
join_lines(lines) ==
    IF lines = <<>> THEN ""
    ELSE IF Len(lines) = 1 THEN lines[1]
    ELSE lines[1] \o "\n" \o join_lines(Tail(lines))

UPPERCASE == "ABCDEFGHIJKLMNOPQRSTUVWXYZ"
LOWERCASE == "abcdefghijklmnopqrstuvwxyz"
UpperLetters == {At(UPPERCASE, i) : i \in 1..26}
LowerLetters == {At(LOWERCASE, i) : i \in 1..26}
LowerOf == [c \in UpperLetters |-> At(LOWERCASE, find(UPPERCASE, c, 1))]

\* str.lower, by halves so that long texts need little depth
RECURSIVE lower(_)
lower(s) ==
    IF Len(s) = 0 THEN ""
    ELSE IF Len(s) = 1 THEN (IF s \in UpperLetters THEN LowerOf[s] ELSE s)
    ELSE lower(SubSeq(s, 1, Len(s) \div 2)) \o lower(From(s, Len(s) \div 2 + 1))

-----------------------------------------------------------------------------
(* Pitch model.                                                            *)

NOTE_SEQUENCE_SHARP ==
    <<"C", "C#", "D", "D#", "E", "F", "F#", "G", "G#", "A", "A#", "B">>
NOTE_SEQUENCE_FLAT ==
    <<"C", "Db", "D", "Eb", "E", "F", "Gb", "G", "Ab", "A", "Bb", "B">>

Prefs == {"sharp", "flat"}

\* list.index: the 0-based position of x in seq, -1 for ValueError
index(seq, x) ==
    IF \E i \in 1..Len(seq) : seq[i] = x
    THEN (CHOOSE i \in 1..Len(seq) :
              seq[i] = x /\ \A j \in 1..(i - 1) : seq[j] # x) - 1
    ELSE -1

\* CHORD_TOKEN_RE.match: None, or <<root, suffix>>
RootLetters == {"A", "B", "C", "D", "E", "F", "G"}

CHORD_TOKEN_RE_match(s) ==
    IF s = "" \/ Head(s) \notin RootLetters THEN None
    ELSE IF Len(s) >= 2 /\ At(s, 2) \in {"#", "b"}
         THEN Some(<<SubSeq(s, 1, 2), From(s, 3)>>)
         ELSE Some(<<SubSeq(s, 1, 1), From(s, 2)>>)

\* the table transpose_chord looks the root up in first
working_sequence(root) ==
    IF contains(root, "b") /\ root # "B"
    THEN NOTE_SEQUENCE_FLAT
    ELSE NOTE_SEQUENCE_SHARP

\* the index of root, trying the other spelling second; -1 when in neither
root_index(root) ==
    LET seq == working_sequence(root)
        alt_seq == IF seq = NOTE_SEQUENCE_SHARP
                   THEN NOTE_SEQUENCE_FLAT ELSE NOTE_SEQUENCE_SHARP
    IN  IF index(seq, root) # -1 THEN index(seq, root)
        ELSE index(alt_seq, root)

\* a remainder that truncates toward zero and drops the sign (C's %, abs)
new_index_truncated(idx, n) ==
    IF idx + n >= 0 THEN (idx + n) % 12 ELSE (0 - (idx + n)) % 12

\* Python's %: the result has the sign of the divisor
new_index(idx, n) == (idx + n) % 12

new_root(new_idx, p) ==
    IF p = "flat" THEN NOTE_SEQUENCE_FLAT[new_idx + 1]
    ELSE NOTE_SEQUENCE_SHARP[new_idx + 1]

\* returning the stripped text the match was tried on
untouched_stripped(c) == strip(c)

\* what transpose_chord returns when it cannot transpose
untouched(c) == c

transpose_chord(c, n, p) ==
    LET m == CHORD_TOKEN_RE_match(strip(c))
    IN  IF m = None THEN untouched(c)
        ELSE LET root == m[1][1]
                 suffix == m[1][2]
                 idx == root_index(root)
             IN  IF idx = -1 THEN untouched(c)
                 ELSE new_root(new_index(idx, n), p) \o suffix

\* str.split("/", 1) of a string that contains "/"
split_slash(inside) ==
    LET k == find(inside, "/", 1)
    IN  <<SubSeq(inside, 1, k - 1), From(inside, k + 1)>>

\* a _repl without the slash-chord branch
repl_whole(inside, n, p) == "[" \o transpose_chord(inside, n, p) \o "]"

\* _repl of transpose_line: the replacement for one match of CHORD_RE
repl(inside, n, p) ==
    IF contains(inside, "/")
    THEN LET lr == split_slash(inside)
         IN  "[" \o transpose_chord(lr[1], n, p) \o "/"
                 \o transpose_chord(lr[2], n, p) \o "]"
    ELSE "[" \o transpose_chord(inside, n, p) \o "]"

\* CHORD_RE.match at a "[" whose text after it is s: the length of the
\* bracket's content, 0 when there is no match
CHORD_RE_inside_len(s) ==
    LET k == find(s, "]", 1)
    IN  IF k <= 1 THEN 0 ELSE k - 1

\* CHORD_RE.sub(_repl, line)
RECURSIVE transpose_line(_, _, _)
transpose_line(s, n, p) ==
    IF s = "" THEN ""
    ELSE IF Head(s) = "[" /\ CHORD_RE_inside_len(Tail(s)) > 0
         THEN LET k == CHORD_RE_inside_len(Tail(s))
              IN  repl(SubSeq(s, 2, k + 1), n, p)
                      \o transpose_line(From(s, k + 3), n, p)
         ELSE Head(s) \o transpose_line(Tail(s), n, p)

\* CHORD_RE.findall(line): the contents of the brackets CHORD_RE matches
RECURSIVE findall(_)
findall(s) ==
    IF s = "" THEN <<>>
    ELSE IF Head(s) = "[" /\ CHORD_RE_inside_len(Tail(s)) > 0
         THEN LET k == CHORD_RE_inside_len(Tail(s))
              IN  <<SubSeq(s, 2, k + 1)>> \o findall(From(s, k + 3))
         ELSE findall(Tail(s))

-----------------------------------------------------------------------------
(* Inputs.                                                                 *)

\* every spelling of the two 12-note tables
Roots ==
    {NOTE_SEQUENCE_SHARP[i] : i \in 1..12} \cup {NOTE_SEQUENCE_FLAT[i] : i \in 1..12}

Semitones == (0 - MaxSemitones)..MaxSemitones
Shifts == (0 - MaxShift)..MaxShift

\* the characters generated bracket contents are made of: a root letter
\* whose sharp is in the tables and whose flat is not (C), one whose flat is
\* and whose sharp is not (E), the accidentals (of which "b" is also a
\* letter that is no root), the slash, whitespace, and a closing bracket (so
\* that a line holds several brackets and text after them)
TokAlphabet == {"C", "E", "#", "b", "/", " ", "]"}

RECURSIVE StringsOfLen(_)
StringsOfLen(k) ==
    IF k = 0 THEN {""}
    ELSE {s \o c : s \in StringsOfLen(k - 1), c \in TokAlphabet}

GeneratedLines ==
    {"[" \o t \o "]" : t \in UNION {StringsOfLen(k) : k \in 0..MaxTokLen}}

ExampleLines ==
    { "[D/F#]", "[XYZ]", "[Fb]", "[E#]", "[C#b5]", "[ Bb ]", "[Bbm7/F]",
      "a [G]b [[C] c", "[G]Amazing [C]grace", "{title: Song [D]}", "no chords",
      "[A/B/C]", "[/G]", "[G/]", "[[G]", "[]", "[Ab", "[C][ X]" }

Lines == GeneratedLines \cup ExampleLines

-----------------------------------------------------------------------------
(* transpose_chord applied to a bare root, there and back.                 *)

\* Renderer B not in use
IdleGrid == mode = 0 /\ out = None /\ lineno = 0

\* no document in hand
IdleDoc == raw_text = "" /\ text = None /\ base_key = None

\* no web application running
IdleWeb ==
    /\ files = <<>>
    /\ request = None
    /\ status = 0
    /\ song_path = None
    /\ opened = None
    /\ location = None
    /\ fragment = None
    /\ page = None

\* no client, no subscriber and no file-system event
IdleEvents ==
    /\ subscriptions = <<>>
    /\ q = <<>>
    /\ stream = <<>>
    /\ delivered = <<>>
    /\ fs_events = <<>>
    /\ notify = None

\* the transposition engine not in use
IdleTranspose ==
    /\ chord = ""
    /\ semitones = 0
    /\ prefer = "sharp"
    /\ transposed = None
    /\ restored = None

InitChord ==
    /\ pc = "start"
    /\ chord \in Roots
    /\ line = ""
    /\ semitones = 0
    /\ prefer = "sharp"
    /\ transposed = None
    /\ restored = None
    /\ IdleGrid
    /\ IdleDoc
    /\ IdleWeb
    /\ IdleEvents

TransposeChord ==
    /\ pc = "start"
    /\ \E n \in Semitones, p \in Prefs :
          /\ semitones' = n
          /\ prefer' = p
          /\ transposed' = Some(transpose_chord(chord, n, p))
    /\ pc' = "transposed"
    /\ UNCHANGED <<chord, line, restored, gvars, dvars, wvars, evars>>

TransposeChordBack ==
    /\ pc = "transposed"
    /\ restored' = Some(transpose_chord(transposed[1], 0 - semitones, prefer))
    /\ pc' = "restored"
    /\ UNCHANGED <<chord, line, semitones, prefer, transposed, gvars, dvars, wvars, evars>>

NextChord == TransposeChord \/ TransposeChordBack

SpecChord == InitChord /\ [][NextChord]_vars

-----------------------------------------------------------------------------
(* transpose_line applied to a line, there and back.                       *)

InitLine ==
    /\ pc = "start"
    /\ chord = ""
    /\ line \in Lines
    /\ semitones = 0
    /\ prefer = "sharp"
    /\ transposed = None
    /\ restored = None
    /\ IdleGrid
    /\ IdleDoc
    /\ IdleWeb
    /\ IdleEvents

TransposeLine ==
    /\ pc = "start"
    /\ \E n \in Shifts, p \in Prefs :
          /\ semitones' = n
          /\ prefer' = p
          /\ transposed' = Some(transpose_line(line, n, p))
    /\ pc' = "transposed"
    /\ UNCHANGED <<chord, line, restored, gvars, dvars, wvars, evars>>

TransposeLineBack ==
    /\ pc = "transposed"
    /\ restored' = Some(transpose_line(transposed[1], 0 - semitones, prefer))
    /\ pc' = "restored"
    /\ UNCHANGED <<chord, line, semitones, prefer, transposed, gvars, dvars, wvars, evars>>

NextLine == TransposeLine \/ TransposeLineBack

SpecLine == InitLine /\ [][NextLine]_vars

-----------------------------------------------------------------------------
(* Renderer B (webchord.py): one content line.                             *)

l_classes == <<"lyrics", "lyrics_chorus", "lyrics_tab", "lyrics_chorus_tab">>
c_classes == <<"chords", "chords_chorus", "chords_tab", "chords_chorus_tab">>

\* str.replace(" ", "&nbsp;")
RECURSIVE replace_spaces(_)
replace_spaces(s) ==
    IF s = "" THEN ""
    ELSE (IF Head(s) = " " THEN "&nbsp;" ELSE Head(s)) \o replace_spaces(Tail(s))

\* the while loop of parse_chopro_line and the append after it:
\* <<chords, lyrics>>
RECURSIVE scan_chords(_, _, _)
scan_chords(rest, chords, lyrics) ==
    LET start == find(rest, "[", 1)
        end == IF start = 0 THEN 0 ELSE find(rest, "]", start + 1)
    IN  IF start = 0 \/ end = 0
        THEN <<chords, Append(lyrics, rest)>>
        ELSE scan_chords(From(rest, end + 1),
                         Append(chords, SubSeq(rest, start + 1, end - 1)),
                         Append(lyrics, SubSeq(rest, 1, start - 1)))

\* a lead that is kept whatever the first lyric fragment is
keep_lead(cl) == cl

\* a lead of which only the chord entry is dropped
drop_lead_chord(cl) ==
    IF cl[2] # <<>> /\ cl[2][1] = "" THEN <<Tail(cl[1]), cl[2]>> ELSE cl

\* "If line began with a chord, first lyrics and chord entries are empty"
drop_empty_lead(cl) ==
    IF cl[2] # <<>> /\ cl[2][1] = "" THEN <<Tail(cl[1]), Tail(cl[2])>> ELSE cl

\* the chords and lyrics lists the markup is made from
grid_cells(s) == drop_empty_lead(scan_chords(replace_spaces(s), <<"">>, <<>>))

RECURSIVE cells_markup(_, _)
cells_markup(cells, class) ==
    IF cells = <<>> THEN ""
    ELSE "<TD class=\"" \o class \o "\">" \o Head(cells) \o "</TD>"
             \o cells_markup(Tail(cells), class)

parse_chopro_line(s, m) ==
    LET chords == grid_cells(s)[1]
        lyrics == grid_cells(s)[2]
    IN  IF lyrics = <<>> \/ \A i \in 1..Len(lyrics) : lyrics[i] = ""
        THEN "<BR>\n"
        ELSE IF Len(lyrics) = 1 /\ (chords = <<>> \/ chords[1] = "")
        THEN "<DIV class=\"" \o l_classes[m + 1] \o "\">" \o lyrics[1] \o "</DIV>\n"
        ELSE "<TABLE cellpadding=\"0\" cellspacing=\"0\">"
                 \o "<TR>" \o cells_markup(chords, c_classes[m + 1]) \o "</TR>"
                 \o "<TR>" \o cells_markup(lyrics, l_classes[m + 1])
                 \o "</TR></TABLE>\n"

GridAlphabet == {"[", "]", "G", "a"}

RECURSIVE GridStringsOfLen(_)
GridStringsOfLen(k) ==
    IF k = 0 THEN {""}
    ELSE {s \o c : s \in GridStringsOfLen(k - 1), c \in GridAlphabet}

GridLines ==
    UNION {GridStringsOfLen(k) : k \in 0..MaxGridLen}
        \cup {"[G]Amazing [C]grace", "Amazing [G]grace", "[G][C]", "[]x", "[G",
              " ", "[G] ", " [G]", "a [G] b [C] "}

InitGrid ==
    /\ pc = "start"
    /\ line \in GridLines
    /\ mode \in 0..3
    /\ out = None
    /\ lineno = 0
    /\ IdleTranspose
    /\ IdleDoc
    /\ IdleWeb
    /\ IdleEvents

ParseChoproLine ==
    /\ pc = "start"
    /\ out' = Some(parse_chopro_line(line, mode))
    /\ pc' = "parsed"
    /\ UNCHANGED <<line, mode, lineno, tvars, dvars, wvars, evars>>

NextGrid == ParseChoproLine

SpecGrid == InitGrid /\ [][NextGrid]_vars

-----------------------------------------------------------------------------
(* Renderer B (webchord.py): a whole document.                             *)

\* a text that is passed on as it is
not_escaped(s) == s

html_escape_char(c) ==
    CASE c = "&" -> "&amp;"
      [] c = "<" -> "&lt;"
      [] c = ">" -> "&gt;"
      [] c = "\"" -> "&quot;"
      [] c = "'" -> "&#x27;"
      [] OTHER -> c

\* html.escape(s, quote=True), by halves
RECURSIVE html_escape(_)
html_escape(s) ==
    IF Len(s) = 0 THEN ""
    ELSE IF Len(s) = 1 THEN html_escape_char(s)
    ELSE html_escape(SubSeq(s, 1, Len(s) \div 2))
             \o html_escape(From(s, Len(s) \div 2 + 1))

\* the title loop of chopro2html, over the escaped lines
RECURSIVE extract_title(_)
extract_title(lines) ==
    IF lines = <<>> THEN "ChordPro song"
    ELSE LET l == strip(Head(lines))
         IN  IF startswith(lower(l), "{title:") /\ endswith(l, "}")
             THEN strip(SubSeq(l, 8, Len(l) - 1))
             ELSE IF startswith(lower(l), "{t:") /\ endswith(l, "}")
             THEN strip(SubSeq(l, 4, Len(l) - 1))
             ELSE extract_title(Tail(lines))

STYLE_AND_BODY_OPEN ==
    "<STYLE TYPE=\"text/css\"><!--\n"
        \o "H1 {\n"
        \o "font-family: \"Arial\", Helvetica;\n"
        \o "font-size: 24pt;\n"
        \o "}\n"
        \o "H2 {\n"
        \o "font-family: \"Arial\", Helvetica;\n"
        \o "font-size: 16pt;\n"
        \o "}\n"
        \o ".lyrics, .lyrics_chorus { font-size: 12pt; }\n"
        \o ".lyrics_tab, .lyrics_chorus_tab { font-family: \"Courier New\", Courier; font-size: 10pt; }\n"
        \o ".lyrics_chorus, .lyrics_chorus_tab, .chords_chorus, .chords_chorus_tab { font-weight: bold; }\n"
        \o ".chords, .chords_chorus, .chords_tab, .chords_chorus_tab { font-size: 10pt; color: blue; padding-right: 4pt;}\n"
        \o ".comment, .comment_italic, .comment_box { background-color: #ffbbaa; }\n"
        \o ".comment_italic { font-style: italic; }\n"
        \o ".comment_box { border: solid; }\n"
        \o "--></STYLE>\n"
        \o "</HEAD><BODY>\n"
        \o "<!--\n"
        \o "Converted from ChordPro format with Web Chord (Python port)\n"
        \o "-->\n"

\* an assignment in place of the or: the other bit is lost
set_bit_only(m, bit) == bit

\* mode |= bit and mode &= ~bit for bit 1 or 2
set_bit(m, bit) == IF (m \div bit) % 2 = 1 THEN m ELSE m + bit
clear_bit(m, bit) == IF (m \div bit) % 2 = 1 THEN m - bit ELSE m

\* inner.split(":", 1)[1]
after_colon(inner) == From(inner, find(inner, ":", 1) + 1)

\* a command line {inner}: <<markup, mode afterwards>>
command(inner, m) ==
    LET low == lower(inner)
        value == after_colon(inner)
    IN  IF startswith(low, "title:") \/ startswith(low, "t:")
        THEN <<"<H1>" \o value \o "</H1>\n", m>>
        ELSE IF startswith(low, "artist:") \/ startswith(low, "a:")
        THEN <<"<H2>" \o value \o "</H2>\n", m>>
        ELSE IF startswith(low, "subtitle:") \/ startswith(low, "st:")
        THEN <<"<H2>" \o value \o "</H2>\n", m>>
        ELSE IF startswith(low, "start_of_chorus") \/ startswith(low, "soc")
        THEN <<"", set_bit(m, 1)>>
        ELSE IF startswith(low, "end_of_chorus") \/ startswith(low, "eoc")
        THEN <<"", clear_bit(m, 1)>>
        ELSE IF startswith(low, "comment_italic:") \/ startswith(low, "ci:")
        THEN <<"<P class=\"comment_italic\">" \o value \o "</P>\n", m>>
        ELSE IF startswith(low, "comment_box:") \/ startswith(low, "cb:")
        THEN <<"<P class=\"comment_box\">" \o value \o "</P>\n", m>>
        ELSE IF startswith(low, "comment:") \/ startswith(low, "c:")
        THEN <<"<P class=\"comment\">" \o value \o "</P>\n", m>>
        ELSE IF startswith(low, "start_of_tab") \/ startswith(low, "sot")
        THEN <<"", set_bit(m, 2)>>
        ELSE IF startswith(low, "end_of_tab") \/ startswith(low, "eot")
        THEN <<"", clear_bit(m, 2)>>
        ELSE <<"<!--Unsupported command: " \o inner \o "-->\n", m>>

\* one pass of the body loop of chopro2html: <<markup, mode afterwards>>
render_line(l, m) ==
    IF startswith(l, "#") THEN <<"<!--" \o Tail(l) \o "-->\n", m>>
    ELSE IF startswith(l, "{") /\ endswith(l, "}")
    THEN command(SubSeq(l, 2, Len(l) - 1), m)
    ELSE <<parse_chopro_line(l, m), m>>

\* the body loop of chopro2html from mode m on
RECURSIVE render_lines(_, _)
render_lines(lines, m) ==
    IF lines = <<>> THEN ""
    ELSE render_line(Head(lines), m)[1]
             \o render_lines(Tail(lines), render_line(Head(lines), m)[2])

chopro2html(chopro) ==
    LET lines == splitlines(html_escape(chopro))
    IN  "<HTML><HEAD><TITLE>" \o extract_title(lines) \o "</TITLE>"
            \o STYLE_AND_BODY_OPEN
            \o render_lines(lines, 0)
            \o "</BODY></HTML>"

\* the lines of the documents chopro2html is run on
RenderLinePool ==
    { "{soc}", "{eoc}", "{sot}", "{eot}", "{start_of_chorus}", "{end_of_tab: x}",
      "{society}", "{foo: 1}", "[G]la" }

RECURSIVE RenderDocsOfLen(_)
RenderDocsOfLen(k) ==
    IF k = 0 THEN {<<>>}
    ELSE {Append(dl, l) : dl \in RenderDocsOfLen(k - 1), l \in RenderLinePool}

RenderDocuments ==
    {join_lines(dl) : dl \in UNION {RenderDocsOfLen(k) : k \in 0..MaxRenderLines}}
        \cup { "{title: A <b>}\n{START_OF_TAB}\n{End_Of_Chorus}\n# note\n{eotx}",
               "{start_of_chorus_2}\n{c: hi}\n{sotto: voce}\n[G]la\n{eocene}",
               "{sot}\n{soc}\n{start_of_chorus}\n{eot}" }

\* chopro2html, one line of the document at a time
InitDocument ==
    /\ pc = "start"
    /\ raw_text \in RenderDocuments
    /\ text = None
    /\ base_key = None
    /\ line = ""
    /\ IdleTranspose
    /\ IdleGrid
    /\ IdleWeb
    /\ IdleEvents

\* escape the document, find the title, write the header, mode = 0
BeginDocument ==
    /\ pc = "start"
    /\ text' = Some(html_escape(raw_text))
    /\ out' = Some("<HTML><HEAD><TITLE>"
                       \o extract_title(splitlines(html_escape(raw_text)))
                       \o "</TITLE>" \o STYLE_AND_BODY_OPEN)
    /\ mode' = 0
    /\ lineno' = 0
    /\ pc' = "lines"
    /\ UNCHANGED <<raw_text, base_key, line, tvars, wvars, evars>>

\* one pass of the body loop
RenderLine ==
    /\ pc = "lines"
    /\ lineno < Len(splitlines(text[1]))
    /\ line' = splitlines(text[1])[lineno + 1]
    /\ out' = Some(out[1] \o render_line(line', mode)[1])
    /\ mode' = render_line(line', mode)[2]
    /\ lineno' = lineno + 1
    /\ UNCHANGED <<pc, dvars, tvars, wvars, evars>>

\* the loop is over: close the body
EndDocument ==
    /\ pc = "lines"
    /\ lineno = Len(splitlines(text[1]))
    /\ out' = Some(out[1] \o "</BODY></HTML>")
    /\ pc' = "end"
    /\ UNCHANGED <<line, mode, lineno, dvars, tvars, wvars, evars>>

NextDocument == BeginDocument \/ RenderLine \/ EndDocument

SpecDocument == InitDocument /\ [][NextDocument]_vars

-----------------------------------------------------------------------------
(* ChordPro helpers (app.py): the normalization pass.                      *)

\* ACCIDENTAL_PREFS.get(key, "sharp")
FlatKeys == {"F", "Bb", "Eb", "Ab", "Db", "Gb"}
SharpKeys == {"C", "G", "D", "A", "E", "B", "F#", "C#"}
ACCIDENTAL_PREFS_get(key) == IF key \in FlatKeys THEN "flat" ELSE "sharp"

\* _normalize_key_value
normalize_key_value(val) ==
    LET v == strip(val)
    IN  IF Len(v) >= 2 /\ startswith(v, "[") /\ endswith(v, "]")
        THEN strip(SubSeq(v, 2, Len(v) - 1))
        ELSE v

\* the characters of [a-zA-Z_]
NameChars == UpperLetters \cup LowerLetters \cup {"_"}

\* the length of the longest prefix of s made of characters of set
RECURSIVE span(_, _)
span(s, set) == IF s # "" /\ Head(s) \in set THEN 1 + span(Tail(s), set) ELSE 0

\* DIRECTIVE_RE.match: None, or <<name, value>>
DIRECTIVE_RE_match(s) ==
    IF ~startswith(s, "{") THEN None
    ELSE LET r1 == lstrip(Tail(s))
             n == span(r1, NameChars)
             r2 == lstrip(From(r1, n + 1))
             r3 == rstrip(Tail(r2))
         IN  IF n = 0 \/ ~startswith(r2, ":") \/ ~endswith(r3, "}") THEN None
             ELSE Some(<<SubSeq(r1, 1, n), strip(SubSeq(r3, 1, Len(r3) - 1))>>)

\* key_pattern.match (re.IGNORECASE): None, or <<group 1>>
key_pattern_match(s) ==
    LET r1 == lstrip(s)
        r2 == lstrip(From(r1, 4))
        r3 == Tail(r2)
    IN  IF Len(r1) < 3 \/ lower(SubSeq(r1, 1, 3)) # "key" THEN None
        ELSE IF ~startswith(r2, ":") \/ r3 = "" THEN None
        ELSE IF lstrip(r3) # "" THEN Some(lstrip(r3))
        ELSE Some(At(r3, Len(r3)))

\* [i for i, l in enumerate(lines) if l.strip()], 1-based
non_empty_indices(lines) ==
    LET idx == {i \in 1..Len(lines) : strip(lines[i]) # ""}
        nth[k \in 1..Cardinality(idx)] ==
            CHOOSE i \in idx : Cardinality({j \in idx : j < i}) = k - 1
    IN  nth

\* seq[a:b] of a Python list, with 0-based a and b
slice(seq, a, b) ==
    IF a >= Len(seq) \/ a >= b THEN <<>>
    ELSE SubSeq(seq, a + 1, IF b > Len(seq) THEN Len(seq) ELSE b)

has_directive_at_top(lines) ==
    LET top == slice(non_empty_indices(lines), 0, 3)
    IN  \E k \in 1..Len(top) :
            LET stripped == lstrip(lines[top[k]])
            IN  startswith(stripped, "{") /\ contains(stripped, "}")

\* the window of non-empty lines searched for a loose "Key: X" line
key_window(ne) == slice(ne, 2, 8)

\* the first index of the window whose line matches key_pattern, 0 if none
key_line_index(lines) ==
    LET w == key_window(non_empty_indices(lines))
        hits == {k \in 1..Len(w) : key_pattern_match(lines[w[k]]) # None}
    IN  IF hits = {} THEN 0
        ELSE w[CHOOSE k \in hits : \A h \in hits : k <= h]

\* a Key line that is promoted and kept in the body as well
consumed_title_artist(lines) ==
    {non_empty_indices(lines)[k] :
        k \in 1..(IF Len(non_empty_indices(lines)) < 2
                  THEN Len(non_empty_indices(lines)) ELSE 2)}

consumed_indices(lines) ==
    LET ne == non_empty_indices(lines)
    IN  {ne[k] : k \in 1..(IF Len(ne) < 2 THEN Len(ne) ELSE 2)}
            \cup (IF key_line_index(lines) = 0 THEN {} ELSE {key_line_index(lines)})

\* the lines whose index is not in the set, in order
RECURSIVE without(_, _, _)
without(lines, consumed, i) ==
    IF i > Len(lines) THEN <<>>
    ELSE (IF i \in consumed THEN <<>> ELSE <<lines[i]>>)
             \o without(lines, consumed, i + 1)

\* the text with synthetic directives, built when no directive is at the top
inferred_text(lines) ==
    LET ne == non_empty_indices(lines)
        title == IF Len(ne) >= 1 THEN strip(lines[ne[1]]) ELSE ""
        artist == IF Len(ne) >= 2 THEN strip(lines[ne[2]]) ELSE ""
        ki == key_line_index(lines)
        inferred_key == IF ki = 0 THEN ""
                        ELSE normalize_key_value(key_pattern_match(lines[ki])[1])
        head == (IF title # "" THEN <<"{title: " \o title \o "}">> ELSE <<>>)
                    \o (IF artist # "" THEN <<"{artist: " \o artist \o "}">> ELSE <<>>)
                    \o (IF inferred_key # "" THEN <<"{key: " \o inferred_key \o "}">>
                        ELSE <<>>)
    IN  join_lines(head \o without(lines, consumed_indices(lines), 1))

\* the base key of a normalized text: None, or <<value>>
RECURSIVE extract_base_key(_)
extract_base_key(lines) ==
    IF lines = <<>> THEN None
    ELSE LET m == DIRECTIVE_RE_match(Head(lines))
         IN  IF m # None /\ lower(m[1][1]) \in {"key", "k"}
             THEN Some(normalize_key_value(strip(m[1][2])))
             ELSE extract_base_key(Tail(lines))

\* prepare_chopro: <<text, base_key>>
prepare_chopro(t) ==
    LET lines == splitlines(t)
    IN  IF lines = <<>> \/ Len(non_empty_indices(lines)) = 0 THEN <<t, None>>
        ELSE LET new_text == IF has_directive_at_top(lines) THEN t
                             ELSE inferred_text(lines)
             IN  <<new_text, extract_base_key(splitlines(new_text))>>

\* the lines documents are generated from
LinePool ==
    { "Amazing Grace", "Key: G", " key : [Eb] ", "KEY:[[F]]", "Key: []", "  ",
      "{key: F}" }

RECURSIVE DocsOfLen(_)
DocsOfLen(k) ==
    IF k = 0 THEN {<<>>}
    ELSE {Append(dl, l) : dl \in DocsOfLen(k - 1), l \in LinePool}

\* lead sheets with up to MaxFiller lines, blank or not, before the key line
RECURSIVE Fillers(_)
Fillers(k) ==
    IF k = 0 THEN {<<>>}
    ELSE Fillers(k - 1) \cup {Append(f, l) : f \in Fillers(k - 1), l \in {"la la", ""}}

LeadSheets ==
    {<<"Amazing Grace", " John Newton ">> \o f \o <<"Key: G", "[G]Amazing grace">> :
        f \in Fillers(MaxFiller)}

Documents ==
    {join_lines(dl) : dl \in UNION {DocsOfLen(k) : k \in 0..MaxDocLines} \cup LeadSheets}
        \cup {"Amazing Grace\nJohn Newton\nKey: G\n[G]Amazing grace\n"}

InitPrepare ==
    /\ pc = "start"
    /\ raw_text \in Documents
    /\ text = None
    /\ base_key = None
    /\ line = ""
    /\ IdleTranspose
    /\ IdleGrid
    /\ IdleWeb
    /\ IdleEvents

PrepareChopro ==
    /\ pc = "start"
    /\ text' = Some(prepare_chopro(raw_text)[1])
    /\ base_key' = prepare_chopro(raw_text)[2]
    /\ pc' = "prepared"
    /\ UNCHANGED <<raw_text, line, tvars, gvars, wvars, evars>>

NextPrepare == PrepareChopro

SpecPrepare == InitPrepare /\ [][NextPrepare]_vars

-----------------------------------------------------------------------------
(* The web application (app.py): paths, query arguments and the routes.    *)

\* str.rfind(sub) with 1-based positions; 0 when sub does not occur
rfind(s, sub) ==
    LET last == Len(s) - Len(sub) + 1
        hit(i) == SubSeq(s, i, i + Len(sub) - 1) = sub
    IN  IF \E i \in 1..last : hit(i)
        THEN CHOOSE i \in 1..last : hit(i) /\ \A j \in (i + 1)..last : ~hit(j)
        ELSE 0

\* the pieces of s between its "/" characters
RECURSIVE split_path(_)
split_path(s) ==
    LET k == find(s, "/", 1)
    IN  IF k = 0 THEN <<s>>
        ELSE <<SubSeq(s, 1, k - 1)>> \o split_path(From(s, k + 1))

\* Path parsing: empty and "." pieces are dropped, ".." is kept
parts(s) == SelectSeq(split_path(s), LAMBDA c : c \notin {"", "."})

\* base / rel: an absolute rel replaces base.  A path is its components
\* below the root.
joinpath(base, rel) ==
    IF startswith(rel, "/") THEN parts(rel) ELSE base \o parts(rel)

\* Path.resolve in a tree without symbolic links: ".." steps up, and the
\* parent of the root is the root
RECURSIVE resolve_from(_, _)
resolve_from(done, todo) ==
    IF todo = <<>> THEN done
    ELSE IF Head(todo) = ".."
    THEN resolve_from(IF done = <<>> THEN <<>> ELSE SubSeq(done, 1, Len(done) - 1),
                      Tail(todo))
    ELSE resolve_from(Append(done, Head(todo)), Tail(todo))

resolve(p) == resolve_from(<<>>, p)

\* "/".join(components)
RECURSIVE join_components(_)
join_components(p) ==
    IF p = <<>> THEN ""
    ELSE IF Len(p) = 1 THEN p[1]
    ELSE p[1] \o "/" \o join_components(Tail(p))

\* str(path) of an absolute path
path_str(p) == "/" \o join_components(p)

\* safe_under: None for abort(403), or <<the resolved candidate>>
safe_under(base, candidate) ==
    IF ~startswith(path_str(resolve(candidate)), path_str(resolve(base)))
    THEN None
    ELSE Some(resolve(candidate))

\* is base a prefix of p, component by component
is_relative_to(p, base) ==
    Len(p) >= Len(base) /\ SubSeq(p, 1, Len(base)) = base

\* str(p.relative_to(base)): None for ValueError
relative_to(p, base) ==
    IF ~is_relative_to(p, base) THEN None
    ELSE IF Len(p) = Len(base) THEN Some(".")
    ELSE Some(join_components(SubSeq(p, Len(base) + 1, Len(p))))

CHORD_EXTS == {".cho", ".chordpro", ".pro", ".onsong", ".txt"}

\* Path.suffix of the last component
suffix(p) ==
    LET name == p[Len(p)]
        k == rfind(name, ".")
    IN  IF k <= 1 \/ k = Len(name) THEN "" ELSE From(name, k)

\* app.config["BASE_DIR"]
BASE_DIR == <<"songs">>

\* the tree the application runs in, in sorted order: the song under edit,
\* a file that is no song, a song in a subdirectory, and a song of a
\* neighbouring directory
TreePaths ==
    << <<"songs", "a.cho">>, <<"songs", "notes.md">>, <<"songs", "sub", "b.pro">>,
       <<"songs-private", "x.cho">> >>

Tree(song) ==
    [p \in {TreePaths[i] : i \in 1..Len(TreePaths)} |->
        CASE p = <<"songs", "a.cho">> -> song
          [] p = <<"songs", "notes.md">> -> "notes"
          [] p = <<"songs", "sub", "b.pro">> -> "{key: Eb}\n[Eb]la"
          [] OTHER -> "{title: Private}\n[G]secret"]

is_file(fs, p) == p \in DOMAIN fs
is_dir(fs, p) == \E f \in DOMAIN fs : Len(f) > Len(p) /\ SubSeq(f, 1, Len(p)) = p
exists(fs, p) == is_file(fs, p) \/ is_dir(fs, p)

\* list_song_files: the files below base_dir with a song suffix, sorted
list_song_files(fs, base_dir) ==
    SelectSeq(TreePaths,
              LAMBDA p : /\ is_relative_to(p, base_dir)
                         /\ lower(suffix(p)) \in CHORD_EXTS
                         /\ is_file(fs, p))

\* app.config["SONG_FILES"], cached by main
SONG_FILES(fs) == list_song_files(fs, BASE_DIR)

DIGITS == "0123456789"
Digit == {At(DIGITS, i) : i \in 1..10}

\* the value of a string of decimal digits
RECURSIVE digits_value(_)
digits_value(s) ==
    IF s = "" THEN 0
    ELSE 10 * digits_value(SubSeq(s, 1, Len(s) - 1))
             + (find(DIGITS, At(s, Len(s)), 1) - 1)

\* int(s) for a string: None for ValueError, or <<the value>>
int(s) ==
    LET t == strip(s)
        signed == t # "" /\ Head(t) \in {"+", "-"}
        ds == IF signed THEN Tail(t) ELSE t
    IN  IF ds = "" \/ \E i \in 1..Len(ds) : At(ds, i) \notin Digit THEN None
        ELSE Some(IF signed /\ Head(t) = "-" THEN 0 - digits_value(ds)
                  ELSE digits_value(ds))

\* int(request.args.get("transpose", 0))
transpose_arg(args) ==
    IF args.transpose = None THEN Some(0) ELSE int(args.transpose[1])

\* the truth value of an optional string
truthy(opt) == opt # None /\ opt[1] # ""

\* what a handler leaves behind; the fields a handler did not reach keep the
\* values of NoResponse
NoResponse ==
    [status |-> 0, song_path |-> None, opened |-> None, location |-> None,
     fragment |-> None, page |-> None, raw_text |-> "", text |-> None,
     base_key |-> None, semitones |-> 0, prefer |-> "sharp"]

\* abort(code), and an exception that no handler catches
abort(code) == [NoResponse EXCEPT !.status = code]
InternalServerError == 500

\* fragment = full_html[body_tag_end + 1 : body_end] when the body is found
cut_body(full_html, body_start, body_tag_end, body_end) ==
    IF body_start # 0 /\ body_tag_end # 0 /\ body_end # 0 /\ body_end > body_tag_end
    THEN SubSeq(full_html, body_tag_end + 1, body_end - 1)
    ELSE full_html

find_body(full_html, low, body_start) ==
    cut_body(full_html, body_start, find(full_html, ">", body_start),
             rfind(low, "</body>"))

\* the <body> content of a full document, or the document itself
body_fragment(full_html, low) == find_body(full_html, low, find(low, "<body", 1))

\* the label of the metadata block
meta_label(base_clean, current_key, n) ==
    IF n # 0 /\ current_key # base_clean
    THEN "Key: " \o html_escape(base_clean) \o " → " \o html_escape(current_key)
    ELSE "Key: " \o html_escape(base_clean)

\* the metadata block of render_song, empty without a base key
meta_html(key, n, p) ==
    IF ~truthy(key) THEN ""
    ELSE "<div class=\"meta\">"
             \o meta_label(strip(key[1]), transpose_chord(strip(key[1]), n, p), n)
             \o "</div>"

\* "\n".join(transpose_line(line, transpose, prefer) for line in lines)
transpose_lines(lines, n, p) ==
    join_lines([i \in 1..Len(lines) |-> transpose_line(lines[i], n, p)])

\* the text handed to the renderer
transpose_text(t, n, p) ==
    IF n # 0 THEN transpose_lines(splitlines(t), n, p) ELSE t

\* prefer of render_song
render_prefer(key) == ACCIDENTAL_PREFS_get(strip(IF truthy(key) THEN key[1] ELSE "C"))

\* render_song from the conversion to HTML on
render_html(safe, raw, key, n, p, t, full_html) ==
    [status |-> 200, song_path |-> safe, opened |-> safe, location |-> None,
     fragment |-> Some(meta_html(key, n, p) \o body_fragment(full_html, lower(full_html))),
     page |-> None, raw_text |-> raw, text |-> Some(t), base_key |-> key,
     semitones |-> n, prefer |-> p]

render_transposed(safe, raw, key, n, p, t) ==
    render_html(safe, raw, key, n, p, t, chopro2html(t))

\* render_song from the choice of the accidental preference on
render_prepared(safe, raw, prepared, n, p) ==
    render_transposed(safe, raw, prepared[2], n, p, transpose_text(prepared[1], n, p))

\* render_song once the text of the file is read
render_text(safe, raw, prepared, n) ==
    render_prepared(safe, raw, prepared, n, render_prefer(prepared[2]))

\* render_song once the path is checked
render_path(fs, safe, transpose) ==
    IF safe = None THEN abort(403)
    ELSE IF ~exists(fs, safe[1]) THEN [abort(404) EXCEPT !.song_path = safe]
    ELSE IF transpose = None
    THEN [abort(InternalServerError) EXCEPT !.song_path = safe]
    ELSE IF ~is_file(fs, safe[1])
    THEN [abort(InternalServerError) EXCEPT
              !.song_path = safe, !.semitones = transpose[1]]
    ELSE render_text(safe, fs[safe[1]], prepare_chopro(fs[safe[1]]), transpose[1])

\* the /render route
render_song(fs, args) ==
    IF ~truthy(args.path) THEN abort(400)
    ELSE render_path(fs, safe_under(BASE_DIR, joinpath(BASE_DIR, args.path[1])),
                     transpose_arg(args))

\* files=[(str(p.relative_to(base_dir)), p.name) for p in files]
listed(song_files) ==
    [i \in 1..Len(song_files) |->
        <<relative_to(song_files[i], BASE_DIR)[1], song_files[i][Len(song_files[i])]>>]

\* current_key of index
index_current_key(key, n, p) ==
    IF ~truthy(key) THEN None
    ELSE IF n # 0 THEN Some(transpose_chord(strip(key[1]), n, p))
    ELSE Some(strip(key[1]))

\* index from render_template_string on
index_template(fs, selected_path, selected, reached, n, key, current_key) ==
    IF selected_path # None /\ selected = None
    THEN [reached EXCEPT !.status = InternalServerError]
    ELSE [reached EXCEPT
             !.status = 200,
             !.page = Some([files |-> listed(SONG_FILES(fs)), selected |-> selected,
                            transpose |-> n, base_key |-> key,
                            current_key |-> current_key])]

\* index once the base key is known
index_key(fs, selected_path, opened_path, raw, n, key, p) ==
    index_template(fs, selected_path,
        IF selected_path = None THEN None ELSE relative_to(selected_path[1], BASE_DIR),
        [NoResponse EXCEPT !.song_path = selected_path, !.opened = opened_path,
                           !.raw_text = raw, !.base_key = key, !.semitones = n,
                           !.prefer = p],
        n, key, index_current_key(key, n, p))

\* prefer of index; it stays unset without a base key
index_prefer(key) ==
    IF truthy(key) THEN ACCIDENTAL_PREFS_get(strip(key[1])) ELSE "sharp"

index_text(fs, selected_path, opened_path, raw, n, key) ==
    index_key(fs, selected_path, opened_path, raw, n, key, index_prefer(key))

\* index once selected_path is settled: read_text, or "" for OSError
index_page(fs, selected_path, n) ==
    IF selected_path = None THEN index_text(fs, None, None, "", n, None)
    ELSE IF ~is_file(fs, selected_path[1])
    THEN index_text(fs, selected_path, None, "", n, prepare_chopro("")[2])
    ELSE index_text(fs, selected_path, selected_path, fs[selected_path[1]], n,
                    prepare_chopro(fs[selected_path[1]])[2])

\* index once the transpose argument is converted
index_selected(fs, args, n, safe) ==
    IF truthy(args.path)
    THEN IF safe = None THEN [abort(403) EXCEPT !.semitones = n]
         ELSE index_page(fs, safe, n)
    ELSE IF SONG_FILES(fs) # <<>>
    THEN [NoResponse EXCEPT
             !.status = 302,
             !.song_path = Some(SONG_FILES(fs)[1]),
             !.semitones = n,
             !.location = Some("/?path=" \o relative_to(SONG_FILES(fs)[1], BASE_DIR)[1])]
    ELSE index_page(fs, None, n)

index_transpose(fs, args, transpose) ==
    IF transpose = None THEN abort(InternalServerError)
    ELSE index_selected(fs, args, transpose[1],
             IF truthy(args.path)
             THEN safe_under(BASE_DIR, joinpath(BASE_DIR, args.path[1]))
             ELSE None)

\* the / route
index_route(fs, args) == index_transpose(fs, args, transpose_arg(args))

\* the lines the song under edit is written from
SongLinePool == {"{key: G}", "{key: F}", "[C]la [Eb]"}

RECURSIVE SongsOfLen(_)
SongsOfLen(k) ==
    IF k = 0 THEN {<<>>}
    ELSE {Append(dl, l) : dl \in SongsOfLen(k - 1), l \in SongLinePool}

\* songs with markup characters in every kind of line, with bracketed text
\* in directive and comment lines, and a lead sheet without directives
SongExamples ==
    { "{title: A <b> & \"q\"}\n{artist: O'Neil}\n{key: <Eb>}\n# c --> <i>\n{c: x > y}\n[C<m>]la <la> & 'la'\n{foo -->}",
      "{title: Song [Demo]}\n{key: G}\n# was in [A]\n{comment: play [F] twice}\n[G]Amazing [C]grace",
      "Rock & Roll\nO'Neil <x>\nKey: [Bb]\n[Bb]la \"la\"" }

SongTexts ==
    {join_lines(dl) : dl \in UNION {SongsOfLen(k) : k \in 0..MaxSongLines}}
        \cup SongExamples

\* the values of the path query argument: absent, or a string
PathArgs ==
    {None} \cup {Some(s) : s \in
        {"", "a.cho", "sub/b.pro", "missing.cho", "sub/../a.cho", ".", "sub",
         "../songs-private/x.cho", "../etc/passwd", "/etc/passwd"}}

\* the values of the transpose query argument: absent, or a string
TransposeArgs ==
    {None} \cup {Some(s) : s \in {"0", "1", "+2", " -3 ", "abc", "", "1.5"}}

Respond(r) ==
    /\ status' = r.status
    /\ song_path' = r.song_path
    /\ opened' = r.opened
    /\ location' = r.location
    /\ fragment' = r.fragment
    /\ page' = r.page
    /\ raw_text' = r.raw_text
    /\ text' = r.text
    /\ base_key' = r.base_key
    /\ semitones' = r.semitones
    /\ prefer' = r.prefer

Init ==
    /\ pc = "idle"
    /\ files \in {Tree(song) : song \in SongTexts}
    /\ request = None
    /\ status = 0
    /\ song_path = None
    /\ opened = None
    /\ location = None
    /\ fragment = None
    /\ page = None
    /\ line = ""
    /\ IdleTranspose
    /\ IdleGrid
    /\ IdleDoc
    /\ IdleEvents

IndexRequest ==
    /\ pc = "idle"
    /\ \E path \in PathArgs, transpose \in TransposeArgs :
          LET args == [route |-> "index", path |-> path, transpose |-> transpose]
          IN  /\ request' = Some(args)
              /\ Respond(index_route(files, args))
    /\ pc' = "done"
    /\ UNCHANGED <<files, line, chord, transposed, restored, gvars, evars>>

RenderRequest ==
    /\ pc = "idle"
    /\ \E path \in PathArgs, transpose \in TransposeArgs :
          LET args == [route |-> "render", path |-> path, transpose |-> transpose]
          IN  /\ request' = Some(args)
              /\ Respond(render_song(files, args))
    /\ pc' = "done"
    /\ UNCHANGED <<files, line, chord, transposed, restored, gvars, evars>>

Next == IndexRequest \/ RenderRequest

Spec == Init /\ [][Next]_vars

-----------------------------------------------------------------------------
(* Live reload (app.py): event streams and the file watcher.               *)

\* _subscriptions.get(p, [])
subscribers_of(subs, p) == IF p \in DOMAIN subs THEN subs[p] ELSE <<>>

\* _subscriptions.setdefault(song_path, []).append(sub)
register(subs, p, sub) ==
    [x \in DOMAIN subs \cup {p} |->
        IF x = p THEN Append(subscribers_of(subs, p), sub) ELSE subs[x]]

\* list.remove: the list without the first entry equal to sub
RECURSIVE remove(_, _)
remove(list, sub) ==
    IF list = <<>> THEN <<>>
    ELSE IF Head(list) = sub THEN Tail(list)
    ELSE <<Head(list)>> \o remove(Tail(list), sub)

\* subs = _subscriptions.get(song_path, []); if sub in subs: subs.remove(sub)
unregister(subs, p, sub) ==
    IF p \in DOMAIN subs THEN [subs EXCEPT ![p] = remove(@, sub)] ELSE subs

\* every subscriber of every path, whatever was changed
notify_everyone(subs, p) ==
    IF DOMAIN subs = {} THEN <<>>
    ELSE subs[CHOOSE x \in DOMAIN subs : \A y \in DOMAIN subs : Len(subs[y]) <= Len(subs[x])]

\* _notify: the subscribers a change of path p is fanned out to
notify_subs(subs, p) ==
    IF lower(suffix(p)) \notin CHORD_EXTS THEN <<>> ELSE subscribers_of(subs, p)

\* the clients, each with at most one request to /events
Clients == 1..MaxClients

\* the values of the path query argument of /events
EventPathArgs ==
    {None} \cup {Some(s) : s \in {"a.cho", "sub/../a.cho", "sub/b.pro", "notes.md",
                                  "../etc/passwd"}}

\* the paths the observer reports: two songs and a file that is no song
ChangedPaths == {"/songs/a.cho", "/songs/sub/b.pro", "/songs/notes.md"}

RECURSIVE ChangesOfLen(_)
ChangesOfLen(k) ==
    IF k = 0 THEN {<<>>}
    ELSE {Append(es, e) : es \in ChangesOfLen(k - 1), e \in ChangedPaths}

InitEvents ==
    /\ pc = "serving"
    /\ subscriptions = <<>>
    /\ q = [c \in Clients |-> <<>>]
    /\ stream = [c \in Clients |-> [state |-> "none", song_path |-> None, status |-> 0]]
    /\ delivered = [c \in Clients |-> 0]
    /\ fs_events \in UNION {ChangesOfLen(k) : k \in 0..MaxChanges}
    /\ notify = None
    /\ line = ""
    /\ IdleTranspose
    /\ IdleGrid
    /\ IdleDoc
    /\ IdleWeb

\* sse_events up to the return of the Response
Subscribe(c) ==
    /\ stream[c].state = "none"
    /\ \E rel \in EventPathArgs :
          LET safe == IF truthy(rel)
                      THEN safe_under(BASE_DIR, joinpath(BASE_DIR, rel[1]))
                      ELSE None
          IN  IF ~truthy(rel)
              THEN /\ stream' = [stream EXCEPT ![c] =
                                    [state |-> "aborted", song_path |-> None,
                                     status |-> 400]]
                   /\ UNCHANGED subscriptions
              ELSE IF safe = None
              THEN /\ stream' = [stream EXCEPT ![c] =
                                    [state |-> "aborted", song_path |-> None,
                                     status |-> 403]]
                   /\ UNCHANGED subscriptions
              ELSE /\ subscriptions' = register(subscriptions, safe[1], c)
                   /\ stream' = [stream EXCEPT ![c] =
                                    [state |-> "registered", song_path |-> safe,
                                     status |-> 200]]
    /\ UNCHANGED <<pc, line, tvars, gvars, dvars, wvars, q, delivered, fs_events, notify>>

\* gen: after the first ping the generator is resumed and enters its try
StartStream(c) ==
    /\ stream[c].state = "registered"
    /\ stream' = [stream EXCEPT ![c].state = "streaming"]
    /\ UNCHANGED <<pc, line, tvars, gvars, dvars, wvars, subscriptions, q, delivered,
                   fs_events, notify>>

\* gen: q.get returns a message and it is sent
Deliver(c) ==
    /\ stream[c].state = "streaming"
    /\ q[c] # <<>>
    /\ q' = [q EXCEPT ![c] = Tail(@)]
    /\ delivered' = [delivered EXCEPT ![c] = @ + 1]
    /\ UNCHANGED <<pc, line, tvars, gvars, dvars, wvars, subscriptions, stream,
                   fs_events, notify>>

\* gen: the stream is closed and the finally clause runs
Terminate(c) ==
    /\ stream[c].state = "streaming"
    /\ subscriptions' = unregister(subscriptions, stream[c].song_path[1], c)
    /\ stream' = [stream EXCEPT ![c].state = "closed"]
    /\ UNCHANGED <<pc, line, tvars, gvars, dvars, wvars, q, delivered, fs_events, notify>>

\* the response is closed before the generator entered its try: no finally
\* clause runs
Abandon(c) ==
    /\ stream[c].state = "registered"
    /\ stream' = [stream EXCEPT ![c].state = "closed"]
    /\ UNCHANGED <<pc, line, tvars, gvars, dvars, wvars, subscriptions, q, delivered,
                   fs_events, notify>>

\* on_modified / on_moved: _notify up to the copy of the subscriber list
NotifyLookup ==
    /\ notify = None
    /\ fs_events # <<>>
    /\ fs_events' = Tail(fs_events)
    /\ notify' = IF notify_subs(subscriptions, resolve(parts(Head(fs_events)))) = <<>>
                 THEN None
                 ELSE Some(notify_subs(subscriptions, resolve(parts(Head(fs_events)))))
    /\ UNCHANGED <<pc, line, tvars, gvars, dvars, wvars, subscriptions, q, stream,
                   delivered>>

\* _notify: one pass of the loop over the copied list
NotifyPut ==
    /\ notify # None
    /\ q' = [q EXCEPT ![Head(notify[1])] = Append(@, "reload")]
    /\ notify' = IF Len(notify[1]) = 1 THEN None ELSE Some(Tail(notify[1]))
    /\ UNCHANGED <<pc, line, tvars, gvars, dvars, wvars, subscriptions, stream,
                   delivered, fs_events>>

NextEvents ==
    \/ \E c \in Clients :
          Subscribe(c) \/ StartStream(c) \/ Deliver(c) \/ Terminate(c) \/ Abandon(c)
    \/ NotifyLookup
    \/ NotifyPut

SpecEvents == InitEvents /\ [][NextEvents]_vars

-----------------------------------------------------------------------------
(* Properties of the transposition engine.                                 *)

\* the pitch class of a root spelling, written out
PitchClass(r) ==
    CASE r \in {"C"} -> 0        [] r \in {"C#", "Db"} -> 1
      [] r \in {"D"} -> 2        [] r \in {"D#", "Eb"} -> 3
      [] r \in {"E"} -> 4        [] r \in {"F"} -> 5
      [] r \in {"F#", "Gb"} -> 6 [] r \in {"G"} -> 7
      [] r \in {"G#", "Ab"} -> 8 [] r \in {"A"} -> 9
      [] r \in {"A#", "Bb"} -> 10 [] r \in {"B"} -> 11

\* the pitch class k steps above pitch class c, without the % operator
PitchClassPlus(c, k) ==
    CHOOSE d \in 0..11 :
        \E w \in (0 - MaxSemitones - 12)..(MaxSemitones + 12) : c + k = 12 * w + d

TableOf(p) == IF p = "flat" THEN NOTE_SEQUENCE_FLAT ELSE NOTE_SEQUENCE_SHARP

\* the bracket contents split at the first "/"
SlashAt(tok) == CHOOSE k \in 1..Len(tok) :
                    At(tok, k) = "/" /\ \A j \in 1..(k - 1) : At(tok, j) # "/"
LeftOf(tok) == SubSeq(tok, 1, SlashAt(tok) - 1)
RightOf(tok) == SubSeq(tok, SlashAt(tok) + 1, Len(tok))
HasSlash(tok) == \E k \in 1..Len(tok) : At(tok, k) = "/"

\* the root spelling a chord text starts with, once trimmed: its first
\* character and a directly following "#" or "b"
RootSpelling(t) ==
    IF Len(t) >= 2 /\ At(t, 2) \in {"#", "b"} THEN SubSeq(t, 1, 2) ELSE SubSeq(t, 1, 1)

\* the tokenizer finds no valid root in the chord text
NoValidRoot(tok) ==
    LET t == strip(tok)
    IN  \/ t = ""
        \/ Head(t) \notin RootLetters
        \/ RootSpelling(t) \notin Roots

\* every bracketed chord of the line parses (both parts of a slash chord)
AllTokensParse(s) ==
    \A i \in 1..Len(findall(s)) :
        LET tok == findall(s)[i]
        IN  IF HasSlash(tok)
            THEN ~NoValidRoot(LeftOf(tok)) /\ ~NoValidRoot(RightOf(tok))
            ELSE ~NoValidRoot(tok)

\* C1: for every line s and preference p, transpose_line(s, 0, p) returns s
\* byte for byte.
C1_ZeroOffsetIsIdentity ==
    (pc = "transposed" /\ semitones = 0) => transposed[1] = line

\* C2: for every line s whose bracketed chords all parse, every n and p,
\* transposing by n and then by -n gives transpose_line(s, 0, p), also when
\* a chord's suffix begins with "#" or "b".
C2_LineRoundTrip ==
    (pc = "restored" /\ AllTokensParse(line))
        => restored[1] = transpose_line(line, 0, prefer)

\* C3: for every root r of the sharp or flat table, every integer n and every
\* preference p, transpose_chord(r, n, p) is the entry of p's table at index
\* (index(r) + n) mod 12, transposing that by -n is the entry of p's table at
\* the index of r, and so has the pitch class of r.
C3_RootRoundTripByPitchClass ==
    /\ pc \in {"transposed", "restored"} =>
          transposed[1] =
              TableOf(prefer)[PitchClassPlus(PitchClass(chord), semitones) + 1]
    /\ pc = "restored" =>
          /\ restored[1] \in Roots
          /\ restored[1] = TableOf(prefer)[PitchClass(chord) + 1]
          /\ PitchClass(restored[1]) = PitchClass(chord)

\* a flat-spelled root taken down more than an octave and back under the
\* sharp preference: same pitch class, other spelling
C3_Witness ==
    /\ pc = "restored"
    /\ chord = "Eb"
    /\ semitones = 0 - 14
    /\ prefer = "sharp"
    /\ transposed = Some("C#")
    /\ restored = Some("D#")

C10_SlashChordParts ==
    pc = "transposed" =>
        LET toks == findall(line)
            outs == findall(transposed[1])
        IN  /\ Len(outs) = Len(toks)
            /\ \A i \in 1..Len(toks) :
                  HasSlash(toks[i]) =>
                      outs[i] = transpose_chord(LeftOf(toks[i]), semitones, prefer)
                                  \o "/"
                                  \o transpose_chord(RightOf(toks[i]), semitones, prefer)
            /\ (line = "[D/F#]" /\ semitones = 2 /\ prefer = "sharp")
                  => transposed[1] = "[E/G#]"

C10_Witness ==
    /\ pc = "transposed"
    /\ line = "[D/F#]"
    /\ semitones = 2
    /\ prefer = "sharp"
    /\ transposed = Some("[E/G#]")

-----------------------------------------------------------------------------
(* Properties of Renderer B's content lines.                               *)

\* the number of (non-overlapping) occurrences of sub in s
RECURSIVE Occurrences(_, _)
Occurrences(s, sub) ==
    IF find(s, sub, 1) = 0 THEN 0
    ELSE 1 + Occurrences(From(s, find(s, sub, 1) + Len(sub)), sub)

\* the cells of the chord row and of the lyric row in the markup
ChordCells(markup, m) == Occurrences(markup, "<TD class=\"" \o c_classes[m + 1] \o "\">")
LyricCells(markup, m) == Occurrences(markup, "<TD class=\"" \o l_classes[m + 1] \o "\">")

\* the first "[" of s that has a "]" somewhere after it, and that "]"
HasChord(s) ==
    \E i \in 1..Len(s) : At(s, i) = "[" /\ \E j \in (i + 1)..Len(s) : At(s, j) = "]"
FirstOpen(s) == CHOOSE i \in 1..Len(s) :
                    At(s, i) = "[" /\ \A h \in 1..(i - 1) : At(s, h) # "["
FirstClose(s) == CHOOSE j \in (FirstOpen(s) + 1)..Len(s) :
                     At(s, j) = "]" /\ \A h \in (FirstOpen(s) + 1)..(j - 1) : At(s, h) # "]"

\* the number of [..] chords of a content line, read left to right
RECURSIVE ChordCount(_)
ChordCount(s) ==
    IF ~HasChord(s) THEN 0 ELSE 1 + ChordCount(From(s, FirstClose(s) + 1))

BeginsWithChord(s) == HasChord(s) /\ Head(s) = "["

IsGrid(markup) == startswith(markup, "<TABLE")

\* C7 as stated: "[G]Amazing [C]grace" gives three cells per row, the chord
\* row led by an empty cell, and a line that begins with a chord and has k
\* chords gives k+1 cells per row.
C7_LeadingEmptyChordCell ==
    (pc = "parsed" /\ BeginsWithChord(line) /\ IsGrid(out[1])) =>
        /\ ChordCells(out[1], mode) = ChordCount(line) + 1
        /\ LyricCells(out[1], mode) = ChordCount(line) + 1
        /\ contains(out[1], "<TR><TD class=\"" \o c_classes[mode + 1] \o "\"></TD>")

\* C7, amended: "[G]Amazing [C]grace" gives a two-row grid of two cells per
\* row, chords G and C over "Amazing&nbsp;" and "grace", with no leading
\* empty cell; a line that begins with a chord, has k chords and is rendered
\* as a grid has k cells per row, and a line with k >= 1 chords that begins
\* with lyric text is a grid of k+1 cells per row whose first chord cell is
\* empty.
C7_GridCellsPerRow ==
    pc = "parsed" =>
        LET k == ChordCount(line)
            td == "<TD class=\"" \o c_classes[mode + 1] \o "\">"
            tl == "<TD class=\"" \o l_classes[mode + 1] \o "\">"
        IN  /\ line = "[G]Amazing [C]grace" =>
                  out[1] = "<TABLE cellpadding=\"0\" cellspacing=\"0\">"
                             \o "<TR>" \o td \o "G</TD>" \o td \o "C</TD></TR>"
                             \o "<TR>" \o tl \o "Amazing&nbsp;</TD>"
                             \o tl \o "grace</TD></TR></TABLE>\n"
            /\ (BeginsWithChord(line) /\ IsGrid(out[1])) =>
                  /\ ChordCells(out[1], mode) = k
                  /\ LyricCells(out[1], mode) = k
            /\ (~BeginsWithChord(line) /\ k >= 1) =>
                  /\ IsGrid(out[1])
                  /\ ChordCells(out[1], mode) = k + 1
                  /\ LyricCells(out[1], mode) = k + 1
                  /\ contains(out[1], "<TR>" \o td \o "</TD>")

C7_Witness ==
    /\ pc = "parsed"
    /\ line = "[G]Amazing [C]grace"
    /\ mode = 0
    /\ IsGrid(out[1])
    /\ ChordCells(out[1], mode) = 2
    /\ LyricCells(out[1], mode) = 2

-----------------------------------------------------------------------------
(* Properties of the normalization pass.                                   *)

Blank(l) == strip(l) = ""
NumNonBlank(lines) == Cardinality({i \in 1..Len(lines) : ~Blank(lines[i])})

\* the index of the k-th non-blank line
NthNonBlank(lines, k) ==
    CHOOSE i \in 1..Len(lines) :
        /\ ~Blank(lines[i])
        /\ Cardinality({j \in 1..(i - 1) : ~Blank(lines[j])}) = k - 1

Smaller(a, b) == IF a < b THEN a ELSE b

\* a line that reads as a {...} directive: an opening brace first, a closing
\* brace somewhere after
LooksLikeDirective(l) ==
    /\ lstrip(l) # ""
    /\ Head(lstrip(l)) = "{"
    /\ \E i \in 1..Len(l) : At(l, i) = "}"

NoDirectiveAtTop(lines) ==
    \A k \in 1..Smaller(3, NumNonBlank(lines)) :
        ~LooksLikeDirective(lines[NthNonBlank(lines, k)])

\* the line reads "key: X", in any case, for a non-empty X
AfterKey(l) == lstrip(From(lstrip(l), 4))
IsKeyLine(l) ==
    /\ Len(lstrip(l)) >= 3
    /\ lower(SubSeq(lstrip(l), 1, 3)) = "key"
    /\ Len(AfterKey(l)) >= 2
    /\ Head(AfterKey(l)) = ":"
KeyX(l) == From(AfterKey(l), 2)

\* x trimmed and without one pair of surrounding square brackets
StripBrackets(x) ==
    LET v == strip(x)
    IN  IF Len(v) >= 2 /\ Head(v) = "[" /\ At(v, Len(v)) = "]"
        THEN strip(SubSeq(v, 2, Len(v) - 1))
        ELSE v

\* the index of the first key line among the 3rd to 8th non-blank lines, 0
\* when there is none
PromotedKeyLine(lines) ==
    LET ks == {k \in 3..Smaller(8, NumNonBlank(lines)) :
                  IsKeyLine(lines[NthNonBlank(lines, k)])}
    IN  IF ks = {} THEN 0
        ELSE NthNonBlank(lines, CHOOSE k \in ks : \A h \in ks : k <= h)

\* the lines whose index is outside gone, in their order
Remaining(lines, gone) ==
    LET kept == {i \in 1..Len(lines) : i \notin gone}
    IN  [k \in 1..Cardinality(kept) |->
            lines[CHOOSE i \in kept : Cardinality({j \in kept : j < i}) = k - 1]]

TitleLine(lines) == "{title: " \o strip(lines[NthNonBlank(lines, 1)]) \o "}"
ArtistLine(lines) == "{artist: " \o strip(lines[NthNonBlank(lines, 2)]) \o "}"
KeyValue(lines) == StripBrackets(KeyX(lines[PromotedKeyLine(lines)]))

\* C8 as stated: with no directive among the first three non-blank lines the
\* returned text is {title: L1}, {artist: L2} and, when one of the 3rd to
\* 8th non-blank lines reads "key: X", {key: X} without X's surrounding
\* brackets, then exactly the other original lines in order; the base key
\* returned is that X.
C8_PromotedHeader ==
    LET lines == splitlines(raw_text)
        ki == PromotedKeyLine(lines)
    IN  (pc = "prepared" /\ NumNonBlank(lines) >= 2 /\ NoDirectiveAtTop(lines)) =>
            /\ text[1] =
                  join_lines(<<TitleLine(lines), ArtistLine(lines)>>
                      \o (IF ki # 0 THEN <<"{key: " \o KeyValue(lines) \o "}">> ELSE <<>>)
                      \o Remaining(lines, {NthNonBlank(lines, 1), NthNonBlank(lines, 2), ki}))
            /\ ki # 0 => base_key = Some(KeyValue(lines))

\* C8, amended: with at least one non-blank line and no directive among the
\* first three, the returned text is {title: L1}, then {artist: L2} when
\* there is a second non-blank line, then, when the first of the 3rd to 8th
\* non-blank lines that reads "key: X" has a non-empty X once trimmed and
\* stripped of one pair of surrounding brackets, {key: X} with that X, then
\* exactly the original lines other than the title, artist and key line, in
\* order (the key line is removed also when its X is empty); with a {key: X}
\* line the base key returned is X without one further pair of surrounding
\* brackets.
C8_PromotedHeaderNonEmptyKey ==
    LET lines == splitlines(raw_text)
        n == NumNonBlank(lines)
        ki == PromotedKeyLine(lines)
        gone == {NthNonBlank(lines, k) : k \in 1..Smaller(2, n)}
                    \cup (IF ki # 0 THEN {ki} ELSE {})
    IN  (pc = "prepared" /\ n >= 1 /\ NoDirectiveAtTop(lines)) =>
            /\ text[1] =
                  join_lines(<<TitleLine(lines)>>
                      \o (IF n >= 2 THEN <<ArtistLine(lines)>> ELSE <<>>)
                      \o (IF ki # 0 /\ KeyValue(lines) # ""
                          THEN <<"{key: " \o KeyValue(lines) \o "}">> ELSE <<>>)
                      \o Remaining(lines, gone))
            /\ (ki # 0 /\ KeyValue(lines) # "")
                  => base_key = Some(StripBrackets(KeyValue(lines)))

\* the lead sheet of the spec's example, its key line the last of the window
C8_Witness ==
    /\ pc = "prepared"
    /\ raw_text = "Amazing Grace\n John Newton \nla la\n\nla la\nla la\nla la\nla la\nKey: G\n[G]Amazing grace"
    /\ text = Some("{title: Amazing Grace}\n{artist: John Newton}\n{key: G}\nla la\n\nla la\nla la\nla la\nla la\n[G]Amazing grace")
    /\ base_key = Some("G")

-----------------------------------------------------------------------------
(* Properties of the web application.                                      *)

\* the request being answered
Args == request[1]

\* a line the renderer treats as chords and lyrics
IsContentLine(l) == ~startswith(l, "#") /\ ~(startswith(l, "{") /\ endswith(l, "}"))

\* a {key: ...} or {k: ...} directive line
IsKeyDirective(l) ==
    DIRECTIVE_RE_match(l) # None /\ lower(DIRECTIVE_RE_match(l)[1][1]) \in {"key", "k"}

KeyDirectivesBefore(lines, i) == {j \in 1..(i - 1) : IsKeyDirective(lines[j])}

\* the preference of the most recent key directive before line i
ActivePreference(lines, i) ==
    LET j == CHOOSE k \in KeyDirectivesBefore(lines, i) :
                 \A m \in KeyDirectivesBefore(lines, i) : m <= k
    IN  ACCIDENTAL_PREFS_get(normalize_key_value(DIRECTIVE_RE_match(lines[j])[1][2]))

\* C4: in the render path each content line that follows a key directive is
\* re-spelled with the accidental preference of the most recent key
\* directive before it.
C4_PositionalPreference ==
    (pc = "done" /\ Args.route = "render" /\ status = 200 /\ semitones # 0)
        => LET before == splitlines(prepare_chopro(raw_text)[1])
               after == splitlines(text[1])
           IN  \A i \in 1..Len(before) :
                   (IsContentLine(before[i]) /\ KeyDirectivesBefore(before, i) # {})
                       => /\ i <= Len(after)
                          /\ after[i] = transpose_line(before[i], semitones,
                                            ActivePreference(before, i))

\* an optional sign and one or more digits, blanks around them allowed
IsSignedInteger(s) ==
    LET t == strip(s)
        ds == IF t # "" /\ Head(t) \in {"+", "-"} THEN Tail(t) ELSE t
    IN  ds # "" /\ \A i \in 1..Len(ds) : At(ds, i) \in Digit

\* what the handler of a request leaves behind
Handle(fs, args) ==
    IF args.route = "index" THEN index_route(fs, args) ELSE render_song(fs, args)

\* what the handler left behind in this state
Outcome ==
    [status |-> status, song_path |-> song_path, opened |-> opened,
     location |-> location, fragment |-> fragment, page |-> page,
     raw_text |-> raw_text, text |-> text, base_key |-> base_key,
     semitones |-> semitones, prefer |-> prefer]

\* C5: a request whose transpose value is missing or is not a signed integer
\* is answered exactly as the same request with transpose 0, and never with
\* a server error of its own.
C5_InvalidTransposeIsZero ==
    (pc = "done" /\ (Args.transpose = None \/ ~IsSignedInteger(Args.transpose[1])))
        => Outcome = Handle(files, [Args EXCEPT !.transpose = Some("0")])

\* p is the base directory or lies below it
InsideBase(p) == Len(p) >= Len(BASE_DIR) /\ \A i \in 1..Len(BASE_DIR) : p[i] = BASE_DIR[i]

\* C6: every path safe_under lets through, and every file a handler reads,
\* is the base directory or lies inside it.
C6_OnlyBaseDirectoryServed ==
    /\ song_path # None => InsideBase(song_path[1])
    /\ opened # None => InsideBase(opened[1])

-----------------------------------------------------------------------------
(* Properties of Renderer B's document loop.                               *)

\* the text between the braces of a braced line
Inner(l) == SubSeq(l, 2, Len(l) - 1)

IsBraced(l) == startswith(l, "{") /\ endswith(l, "}")

\* the directive name of a braced line: up to the colon if there is one
DirectiveName(l) ==
    LET k == find(Inner(l), ":", 1)
    IN  lower(strip(IF k = 0 THEN Inner(l) ELSE SubSeq(Inner(l), 1, k - 1)))

RecognizedNames ==
    { "title", "t", "artist", "a", "subtitle", "st", "start_of_chorus", "soc",
      "end_of_chorus", "eoc", "start_of_tab", "sot", "end_of_tab", "eot",
      "comment", "c", "comment_italic", "ci", "comment_box", "cb" }

\* an inert comment marker that names the directive
IsMarkerFor(markup, l) ==
    /\ startswith(markup, "<!--")
    /\ endswith(markup, "-->\n")
    /\ contains(markup, DirectiveName(l))
    /\ Occurrences(markup, "<") = 1

\* C11: a step of the document loop over a braced line whose name is not a
\* recognized name or alias appends one inert comment marker naming the
\* directive and leaves the mode as it was.
C11_UnknownDirectiveIsInert ==
    [][(pc = "lines" /\ lineno' = lineno + 1 /\ IsBraced(line')
            /\ DirectiveName(line') \notin RecognizedNames)
        => /\ mode' = mode
           /\ \E k \in 1..Len(out'[1]) :
                 /\ SubSeq(out'[1], 1, k) = out[1]
                 /\ IsMarkerFor(From(out'[1], k + 1), line')]_vars

\* the lines rendered so far
Rendered == SubSeq(splitlines(text[1]), 1, lineno)

\* lines the renderer takes as the start and the end of a section: the text
\* between the braces begins with the long name or the alias
Starts(l, long, alias) ==
    IsBraced(l) /\ (startswith(lower(Inner(l)), long) \/ startswith(lower(Inner(l)), alias))

IsChorusStart(l) == Starts(l, "start_of_chorus", "soc")
IsChorusEnd(l) == Starts(l, "end_of_chorus", "eoc")
IsTabStart(l) == Starts(l, "start_of_tab", "sot")
IsTabEnd(l) == Starts(l, "end_of_tab", "eot")

\* 1 when the most recent line of ls that starts or ends the section starts
\* it, 0 when it ends it or there is none
SectionBit(ls, IsStart(_), IsEnd(_)) ==
    LET marks == {i \in 1..Len(ls) : IsStart(ls[i]) \/ IsEnd(ls[i])}
    IN  IF marks = {} THEN 0
        ELSE IF IsStart(ls[CHOOSE i \in marks : \A j \in marks : j <= i]) THEN 1
        ELSE 0

-----------------------------------------------------------------------------
(* Escaping on the render path.                                            *)

MarkupChars == {"<", ">", "&", "\"", "'"}
Entities == {"&lt;", "&gt;", "&amp;", "&quot;", "&#x27;"}

\* s with every markup character replaced by "~", by halves
RECURSIVE Neutral(_)
Neutral(s) ==
    IF Len(s) = 0 THEN ""
    ELSE IF Len(s) = 1 THEN (IF s \in MarkupChars THEN "~" ELSE s)
    ELSE Neutral(SubSeq(s, 1, Len(s) \div 2)) \o Neutral(From(s, Len(s) \div 2 + 1))

\* the length of the entity s begins with at position k, 0 if there is none
EntityAt(s, k) ==
    IF \E e \in Entities : SubSeq(s, k, k + Len(e) - 1) = e /\ k + Len(e) - 1 <= Len(s)
    THEN Len(CHOOSE e \in Entities : SubSeq(s, k, k + Len(e) - 1) = e)
    ELSE 0

\* s with every entity, read from the left, replaced by "~"
RECURSIVE DeEntity(_)
DeEntity(s) ==
    LET k == find(s, "&", 1)
    IN  IF k = 0 THEN s
        ELSE IF EntityAt(s, k) = 0 THEN SubSeq(s, 1, k) \o DeEntity(From(s, k + 1))
        ELSE SubSeq(s, 1, k - 1) \o "~" \o DeEntity(From(s, k + EntityAt(s, k)))

\* the fragment the same request gets when the file read holds t
FragmentFor(t) ==
    render_song([files EXCEPT ![opened[1]] = t], Args).fragment[1]

\* C13: the rendered fragment is the fragment of the document with its
\* markup characters taken out, with an entity at each place where one was
\* taken out: the document's <, >, &, " and ' reach the fragment as entities
\* only, and add no tag and close no comment.
C13_DocumentTextIsEscaped ==
    (pc = "done" /\ Args.route = "render" /\ status = 200)
        => DeEntity(fragment[1]) = FragmentFor(Neutral(raw_text))

\* a transposed rendering of a song with markup characters in its title,
\* artist, key, comments, chords and lyrics
C13_Witness ==
    /\ pc = "done"
    /\ Args.route = "render"
    /\ status = 200
    /\ semitones = 1
    /\ contains(raw_text, "[C<m>]la <la> & 'la'")
    /\ contains(fragment[1], "<H1> A &lt;b&gt; &amp; &quot;q&quot;</H1>")
    /\ contains(fragment[1], "<!-- c --&gt; &lt;i&gt;-->")
    /\ contains(fragment[1], "<div class=\"meta\">Key: &lt;Eb&gt;</div>")

-----------------------------------------------------------------------------
(* Renderer B: the chords and fragments of a line against its markup.      *)

\* the texts of the cells of a row: what stands between each open tag and
\* the next </TD>
RECURSIVE Cells(_, _)
Cells(markup, open) ==
    LET k == find(markup, open, 1)
        e == find(markup, "</TD>", k + Len(open))
    IN  IF k = 0 THEN <<>>
        ELSE <<SubSeq(markup, k + Len(open), e - 1)>> \o Cells(From(markup, e + 5), open)

ChordRow(markup, m) == Cells(markup, "<TD class=\"" \o c_classes[m + 1] \o "\">")
LyricRow(markup, m) == Cells(markup, "<TD class=\"" \o l_classes[m + 1] \o "\">")

\* a text as the markup shows it: each space a non-breaking space
RECURSIVE Shown(_)
Shown(s) ==
    IF s = "" THEN "" ELSE (IF Head(s) = " " THEN "&nbsp;" ELSE Head(s)) \o Shown(Tail(s))

\* the [..] chords of a line in source order, and the lyric fragments around
\* them: the text before each chord and the text after the last one
RECURSIVE SourceChords(_)
SourceChords(s) ==
    IF ~HasChord(s) THEN <<>>
    ELSE <<Shown(SubSeq(s, FirstOpen(s) + 1, FirstClose(s) - 1))>>
             \o SourceChords(From(s, FirstClose(s) + 1))

RECURSIVE SourceLyrics(_)
SourceLyrics(s) ==
    IF ~HasChord(s) THEN <<Shown(s)>>
    ELSE <<Shown(SubSeq(s, 1, FirstOpen(s) - 1))>> \o SourceLyrics(From(s, FirstClose(s) + 1))

IsBlock(markup) == startswith(markup, "<DIV")
IsBreak(markup) == markup = "<BR>\n"

\* every chord of the line has a name between its brackets
NamedChords(s) == \A i \in 1..Len(SourceChords(s)) : SourceChords(s)[i] # ""

\* C14: a line with one or more chords is rendered as a grid whose chord
\* row lists all its chords in source order, after an empty cell if there
\* is one; the single block is for lines without chords and the line break
\* for lines with no chord and no lyric text.
C14_EveryChordInGrid ==
    pc = "parsed" =>
        /\ (ChordCount(line) >= 1 /\ NamedChords(line)) =>
              /\ IsGrid(out[1])
              /\ ChordRow(out[1], mode) \in
                     {SourceChords(line), <<"">> \o SourceChords(line)}
        /\ IsBlock(out[1]) => ChordCount(line) = 0
        /\ (IsBreak(out[1]) /\ NamedChords(line)) => line = ""

\* the chord cells a grid is to show: no chord before the first fragment,
\* then each chord before the fragment that follows it; the first pair is
\* left out when the line begins with a chord
PairedChords(s) ==
    IF SourceLyrics(s)[1] = "" THEN SourceChords(s) ELSE <<"">> \o SourceChords(s)
PairedLyrics(s) ==
    IF SourceLyrics(s)[1] = "" THEN Tail(SourceLyrics(s)) ELSE SourceLyrics(s)

\* C15 as stated: in a grid both rows have the same number of cells, each
\* chord cell holds the chord just before the lyric fragment below it, and
\* the first chord cell is empty exactly when the line starts with lyric
\* text.
C15_FirstCellEmptyOnlyForLeadingLyric ==
    (pc = "parsed" /\ IsGrid(out[1])) =>
        /\ Len(ChordRow(out[1], mode)) = Len(LyricRow(out[1], mode))
        /\ ChordRow(out[1], mode) = PairedChords(line)
        /\ LyricRow(out[1], mode) = PairedLyrics(line)
        /\ ChordRow(out[1], mode)[1] = "" <=> ~BeginsWithChord(line)

\* C15, amended: in a grid both rows have the same number of cells, each
\* chord cell holds the chord just before the lyric fragment below it, and
\* the first chord cell is empty exactly when the line starts with lyric
\* text or its first chord is the empty token [].
C15_GridRowsPairChordsWithFragments ==
    (pc = "parsed" /\ IsGrid(out[1])) =>
        /\ Len(ChordRow(out[1], mode)) = Len(LyricRow(out[1], mode))
        /\ ChordRow(out[1], mode) = PairedChords(line)
        /\ LyricRow(out[1], mode) = PairedLyrics(line)
        /\ ChordRow(out[1], mode)[1] = ""
               <=> (~BeginsWithChord(line) \/ SourceChords(line)[1] = "")

\* a grid of three cells per row for a line that starts with lyric text
C15_Witness ==
    /\ pc = "parsed"
    /\ line = "a [G] b [C] "
    /\ IsGrid(out[1])
    /\ ChordRow(out[1], mode) = <<"", "G", "C">>
    /\ LyricRow(out[1], mode) = <<"a&nbsp;", "&nbsp;b&nbsp;", "&nbsp;">>

-----------------------------------------------------------------------------
(* Transposition on the render path: which lines it touches.               *)

\* C16: with a non-zero offset every directive line and every "#" comment
\* line of the normalized text reaches the renderer as it is, bracketed
\* tokens included; only chord/lyric content lines are rewritten.  Stated
\* for documents that carry their own directives.
C16_DirectivesReachRendererUnchanged ==
    (pc = "done" /\ Args.route = "render" /\ status = 200 /\ semitones # 0
         /\ prepare_chopro(raw_text)[1] = raw_text)
        => LET before == splitlines(prepare_chopro(raw_text)[1])
               after == splitlines(text[1])
           IN  \A i \in 1..Len(before) :
                   ~IsContentLine(before[i])
                       => (i <= Len(after) /\ after[i] = before[i])

-----------------------------------------------------------------------------
(* Properties of live reload.                                              *)

\* the subscribers the running _notify has still to put a message to
Pending == IF notify = None THEN {} ELSE {notify[1][i] : i \in 1..Len(notify[1])}

\* the messages put on the queue of c so far: those waiting and those sent
Puts(c) == Len(q[c]) + delivered[c]

\* the subscribers the registry holds for path p
RegisteredFor(p) ==
    IF p \in DOMAIN subscriptions
    THEN {subscriptions[p][i] : i \in 1..Len(subscriptions[p])}
    ELSE {}

\* the path of the change the watcher reports next
ChangedPath == resolve(parts(Head(fs_events)))

\* an open stream is in the registry under its own path, once
StreamsAreRegistered ==
    /\ \A c \in Clients :
          stream[c].state \in {"registered", "streaming"} =>
             c \in RegisteredFor(stream[c].song_path[1])
    /\ \A p \in DOMAIN subscriptions :
          /\ Cardinality(RegisteredFor(p)) = Len(subscriptions[p])
          /\ \A c \in RegisteredFor(p) : stream[c].song_path = Some(p)

\* taking up a change selects the registered subscribers of its path, or
\* nobody when the file is no chord document, and puts nothing by itself
ChangeSelectsItsSubscribers ==
    (fs_events' # fs_events) =>
       /\ Pending = {}
       /\ q' = q
       /\ Pending' = IF lower(suffix(ChangedPath)) \in {".cho", ".chopro", ".pro"}
                     THEN RegisteredFor(ChangedPath)
                     ELSE {}
       /\ \A c \in Clients :
             /\ stream[c].state \in {"registered", "streaming"}
             /\ stream[c].song_path = Some(ChangedPath)
             /\ lower(suffix(ChangedPath)) \in {".cho", ".chopro", ".pro"}
             => c \in Pending'

\* a queue grows only by one "reload" for a selected subscriber, and a
\* selected subscriber is dropped from the selection only by that message
SelectedGetExactlyOne ==
    /\ \A c \in Clients :
          Puts(c)' # Puts(c) =>
             /\ Puts(c)' = Puts(c) + 1
             /\ q'[c] = Append(q[c], "reload")
             /\ c \in Pending
             /\ c \notin Pending'
    /\ \A c \in Pending : c \notin Pending' => Puts(c)' = Puts(c) + 1
    /\ (fs_events' = fs_events) => Pending' \subseteq Pending

=============================================================================
